---- MODULE Spec2Model ----
(***************************************************************************)
(* Model of the /chat request pipeline of src/api.py: voice transcription, *)
(* the small-talk short circuit, prompt composition, generation with its   *)
(* localized fallback, and optional speech synthesis.                      *)
(*                                                                         *)
(* Python strings that the code inspects (message, language code) are      *)
(* sequences of one-character strings, so that lower(), strip(),           *)
(* startswith() and == are computed and not assumed.  The static reply     *)
(* texts are records naming the table and the entry they come from.        *)
(* The three collaborators (recognition, generation, synthesis) and the    *)
(* file system are the environment: each call draws its outcome.           *)
(***************************************************************************)
EXTENDS Integers, Sequences, FiniteSets, TLC

VARIABLES
    pc,           \* position of the request inside chat()
    req,          \* the ChatRequest being served
    user_query,   \* local user_query of chat()
    target_lang,  \* local target_lang of chat()
    prompt_or_response, \* local prompt_or_response of chat()
    ai_resp,      \* local resp / ai_resp of chat(): the final text
    response,     \* the value chat() returned
    raised,       \* TRUE when an exception left chat()
    tempFile,     \* the NamedTemporaryFile of speech_to_text
    sttLeft,      \* TRUE once speech_to_text has been left
    sttFailure,   \* which step of speech_to_text failed, or "none"
    genOutcome,   \* outcome of the generation call, or "none"
    ttsOutcome,   \* outcome of the synthesis call, or "none"
    sttCalls,     \* calls of rec.recognize_google
    genCalls,     \* calls of model.generate_content
    ttsCalls,     \* calls of gTTS
    stages        \* the stages of chat() that have run

vars ==
    <<pc, req, user_query, target_lang, prompt_or_response, ai_resp, response,
      raised, tempFile, sttLeft, sttFailure, genOutcome, ttsOutcome, sttCalls, genCalls,
      ttsCalls, stages>>

(***************************************************************************)
(* Bounds and input data.                                                  *)
(***************************************************************************)
MaxHist ==
    2

HistoryWindow ==
    10

en ==
    <<"e", "n">>

hi ==
    <<"h", "i">>

ta ==
    <<"t", "a">>

gu ==
    <<"g", "u">>

fr ==
    <<"f", "r">>

HI_upper ==
    <<"H", "I">>

m_hi ==
    <<"h", "i">>

m_Hi_padded ==
    <<" ", "H", "i", " ">>

m_HELLO ==
    <<"H", "E", "L", "L", "O">>

m_kem_cho ==
    <<"k", "e", "m", " ", "c", "h", "o">>

m_hi_there ==
    <<"h", "i", " ", "t", "h", "e", "r", "e">>

m_thank_you ==
    <<"t", "h", "a", "n", "k", " ", "y", "o", "u">>

m_bye ==
    <<"b", "y", "e">>

m_problem ==
    <<"I", " ", "h", "a", "v", "e", " ", "a", " ", "p", "r", "o", "b", "l", "e", "m", " ", "o", "n", " ", "t", "h", "e", " ", "p", "o", "r", "t", "a", "l", ".">>

m_help_lower ==
    <<"h", "e", "l", "p", " ", "m", "e">>

m_general ==
    <<"W", "h", "a", "t", " ", "i", "s", " ", "P", "M", "-", "A", "J", "A", "Y", "?">>

k_rejected ==
    <<"H", "e", "l", "p", ":", " ", "A", "p", "p", "l", "i", "c", "a", "t", "i", "o", "n", " ", "r", "e", "j", "e", "c", "t", "e", "d", ",", " ", "w", "h", "a", "t", " ", "n", "e", "x", "t", "?">>

k_forgot ==
    <<"H", "e", "l", "p", ":", " ", "F", "o", "r", "g", "o", "t", " ", "p", "a", "s", "s", "w", "o", "r", "d", " ", "o", "r", " ", "b", "e", "n", "e", "f", "i", "c", "i", "a", "r", "y", " ", "I", "D">>

k_stuck ==
    <<"H", "e", "l", "p", ":", " ", "A", "p", "p", "l", "i", "c", "a", "t", "i", "o", "n", " ", "s", "t", "a", "t", "u", "s", " ", "i", "s", " ", "s", "t", "u", "c", "k", " ", "o", "r", " ", "n", "o", "t", " ", "u", "p", "d", "a", "t", "i", "n", "g">>

k_general ==
    <<"H", "e", "l", "p", ":", " ", "G", "e", "n", "e", "r", "a", "l", " ", "a", "s", "s", "i", "s", "t", "a", "n", "c", "e", " ", "n", "e", "e", "d", "e", "d">>

\* The audio payload of a voice request: the message field carries it.
AudioPayload ==
    <<"R", "I", "F", "F">>

\* Typed or transcribed messages.
Messages ==
    {m_hi, m_Hi_padded, m_HELLO, m_kem_cho, m_hi_there, m_thank_you, m_bye,
     m_problem, m_help_lower, m_general, k_rejected, k_general}

\* target_language values a caller sends.
LanguageInputs ==
    {en, hi, ta, gu, fr, HI_upper}

Roles ==
    {"user", "assistant"}

\* chat_history values: up to MaxHist turns {role, content}.
Histories ==
    UNION {[1..n -> [role : Roles, content : {"c"}]] : n \in 0..MaxHist}

\* Outcomes of the environment's calls.
WriteOutcomes ==
    {"ok", "raise"}

ReadOutcomes ==
    {"ok", "raise"}

RecognizeOutcomes ==
    {"ok", "raise"}

\* "raise": generate_content raises; "bad_text": reading .text raises.
GenOutcomes ==
    {"ok", "raise", "bad_text"}

TtsOutcomes ==
    {"ok", "raise"}

\* What the recognizer may hear (the empty transcript included).
Transcripts ==
    Messages \cup {<<>>}

(***************************************************************************)
(* Python values.                                                          *)
(***************************************************************************)
\* None where a str is expected: no sequence of characters equals it.
PyNone ==
    <<"<None>">>

\* A text: which static table or producer it comes from, and its content.
Txt(kind, lang, markup) ==
    [kind |-> kind, lang |-> lang, markup |-> markup,
     language_name |-> "", history |-> <<>>, query |-> <<>>]

NoText ==
    Txt("none", <<>>, FALSE)

NoAudio ==
    [some |-> FALSE, text |-> NoText, lang |-> <<>>]

NoRequest ==
    [message |-> <<>>, target_language |-> <<>>, chat_history |-> <<>>,
     wants_audio |-> FALSE, is_voice |-> FALSE]

NoResponse ==
    [present |-> FALSE, text |-> NoText, language |-> <<>>,
     has_tts_audio |-> FALSE, tts_audio |-> NoAudio]

\* dict.get(key, default)
get(d, key, default) ==
    IF key \in DOMAIN d THEN d[key] ELSE default

(***************************************************************************)
(* str methods.                                                            *)
(***************************************************************************)
UpperToLower ==
    ("A" :> "a") @@ ("B" :> "b") @@ ("C" :> "c") @@ ("D" :> "d") @@
    ("E" :> "e") @@ ("F" :> "f") @@ ("G" :> "g") @@ ("H" :> "h") @@
    ("I" :> "i") @@ ("J" :> "j") @@ ("K" :> "k") @@ ("L" :> "l") @@
    ("M" :> "m") @@ ("N" :> "n") @@ ("O" :> "o") @@ ("P" :> "p") @@
    ("Q" :> "q") @@ ("R" :> "r") @@ ("S" :> "s") @@ ("T" :> "t") @@
    ("U" :> "u") @@ ("V" :> "v") @@ ("W" :> "w") @@ ("X" :> "x") @@
    ("Y" :> "y") @@ ("Z" :> "z")

\* str.lower()
lower(s) ==
    [i \in 1..Len(s) |-> get(UpperToLower, s[i], s[i])]

Whitespace ==
    {" ", "\t", "\n", "\r"}

\* str.strip()
strip(s) ==
    LET keep == {i \in 1..Len(s) : s[i] \notin Whitespace}
    IN  IF keep = {} THEN <<>>
        ELSE LET first == CHOOSE i \in keep : \A j \in keep : i <= j
                 last  == CHOOSE i \in keep : \A j \in keep : j <= i
             IN  SubSeq(s, first, last)

\* str.startswith(prefix)
startswith(s, prefix) ==
    /\ Len(s) >= Len(prefix)
    /\ SubSeq(s, 1, Len(prefix)) = prefix

(***************************************************************************)
(* Static tables and helpers of api.py.                                    *)
(***************************************************************************)
SUPPORTED_LANGUAGES ==
    (en :> "English") @@ (hi :> "Hindi") @@ (ta :> "Tamil") @@
    (gu :> "Gujarati")

keywords ==
    {<<"h", "e", "l", "l", "o">>, <<"h", "i">>, <<"h", "e", "y">>,
     <<"n", "a", "m", "a", "s", "t", "e">>,
     <<"v", "a", "n", "a", "k", "k", "a", "m">>,
     <<"k", "e", "m", " ", "c", "h", "o">>}

is_small_talk_with_thanks(text) ==
    LET tl == lower(text)
    IN  \E p \in keywords \cup {m_thank_you, m_bye} : p = strip(tl)

is_small_talk_no_strip(text) ==
    LET tl == lower(text)
    IN  \E p \in keywords : p = tl

is_small_talk(text) ==
    LET tl == lower(text)
    IN  \E p \in keywords : p = strip(tl)

get_small_talk_response(lang) ==
    LET responses == [l \in DOMAIN SUPPORTED_LANGUAGES |->
                         Txt("small_talk", l, FALSE)]
    IN  get(responses, lang, responses[en])

\* msgs of chat(): the "could not understand your voice" table.
voice_msgs(lang) ==
    LET msgs == [l \in DOMAIN SUPPORTED_LANGUAGES |->
                    Txt("voice_not_understood", l, FALSE)]
    IN  get(msgs, lang, msgs[en])

fallback_english_only(lang) ==
    Txt("fallback", en, FALSE)

\* fallback of chat(): the generation-failure table.
fallback_get(lang) ==
    LET fallback == [l \in DOMAIN SUPPORTED_LANGUAGES |->
                        Txt("fallback", l, FALSE)]
    IN  get(fallback, lang, fallback[en])

\* The text the generation collaborator produces (it may carry markup).
GeneratedText ==
    Txt("generated", <<>>, TRUE)

HelpKeys ==
    {k_rejected, k_forgot, k_stuck, k_general}

\* HELP_RESPONSES of build_prompt: bound only for the four languages.
HELP_RESPONSES(lang) ==
    [k \in HelpKeys |->
        [Txt("help_response", lang, TRUE) EXCEPT !.query = k]]

\* MASTER_RESPONSE of build_prompt: bound only for the four languages.
MASTER_RESPONSE(lang) ==
    Txt("master_response", lang, TRUE)

\* build_prompt always returns the instruction template, filled in with the
\* language name, the history transcript and the question; the tables above
\* are computed and never returned.
build_prompt(query, chat_history, lang) ==
    [kind |-> "prompt", lang |-> <<>>, markup |-> TRUE,
     language_name |-> get(SUPPORTED_LANGUAGES, lang, "English"),
     history |-> chat_history, query |-> query]

\* chat_history[-10:]
LastTurns(h, n) ==
    IF Len(h) <= n THEN h ELSE SubSeq(h, Len(h) - n + 1, Len(h))

\* history_text of chat(): one "Role: content" line per kept turn.
history_text(h) ==
    LET kept == LastTurns(h, HistoryWindow)
    IN  [i \in 1..Len(kept) |->
            <<IF kept[i].role = "user" THEN "User" ELSE "Assistant",
              kept[i].content>>]

HelpPrefix ==
    <<"H", "e", "l", "p", ":">>

IsHelpQuery_never(query) ==
    FALSE

\* the test of chat() that takes build_prompt's value as the answer
IsHelpQuery(query) ==
    startswith(query, HelpPrefix)

\* re.sub(r'[\*\#]', '', text)
clean_text(text) ==
    [text EXCEPT !.markup = FALSE]

text_to_speech_unguarded(text, lang, outcome) ==
    LET lang_map == [l \in DOMAIN SUPPORTED_LANGUAGES |-> l]
        tts_lang == get(lang_map, lang, en)
    IN  IF outcome = "ok"
        THEN [raised |-> FALSE,
              audio |-> [some |-> TRUE, text |-> clean_text(text),
                         lang |-> tts_lang]]
        ELSE [raised |-> TRUE, audio |-> NoAudio]

\* text_to_speech: the audio, or None when anything inside raised.
text_to_speech(text, lang, outcome) ==
    LET lang_map == [l \in DOMAIN SUPPORTED_LANGUAGES |-> l]
        tts_lang == get(lang_map, lang, en)
    IN  IF outcome = "ok"
        THEN [raised |-> FALSE,
              audio |-> [some |-> TRUE, text |-> clean_text(text),
                         lang |-> tts_lang]]
        ELSE [raised |-> FALSE, audio |-> NoAudio]

(***************************************************************************)
(* The request pipeline: chat() and the functions it calls.                *)
(***************************************************************************)
Init ==
    /\ pc = "idle"
    /\ req = NoRequest
    /\ user_query = <<>>
    /\ target_lang = <<>>
    /\ prompt_or_response = NoText
    /\ ai_resp = NoText
    /\ response = NoResponse
    /\ raised = FALSE
    /\ tempFile = "none"
    /\ sttLeft = FALSE
    /\ sttFailure = "none"
    /\ genOutcome = "none"
    /\ ttsOutcome = "none"
    /\ sttCalls = 0
    /\ genCalls = 0
    /\ ttsCalls = 0
    /\ stages = {}

\* Python truthiness of a str-or-None value.
Falsy(s) ==
    s = PyNone \/ s = <<>>

\* chat() takes the request: user_query = req.message,
\* target_lang = req.target_language.lower(), then the is_voice test.
Receive(m, l, h, wa, iv) ==
    /\ pc = "idle"
    /\ req' = [message |-> m, target_language |-> l, chat_history |-> h,
               wants_audio |-> wa, is_voice |-> iv]
    /\ user_query' = m
    /\ target_lang' = lower(l)
    /\ pc' = IF iv THEN "stt_write" ELSE "classify"
    /\ UNCHANGED <<prompt_or_response, ai_resp, response, raised, tempFile,
                   sttLeft, sttFailure, genOutcome, ttsOutcome, sttCalls,
                   genCalls, ttsCalls, stages>>

\* chat() after speech_to_text returned `result`: the "not user_query"
\* test and the localized "could not understand" return.
AfterTranscription(result) ==
    /\ user_query' = result
    /\ IF Falsy(result)
       THEN /\ response' = [present |-> TRUE,
                            text |-> voice_msgs(target_lang),
                            language |-> target_lang,
                            has_tts_audio |-> FALSE,
                            tts_audio |-> NoAudio]
            /\ pc' = "done"
       ELSE /\ response' = response
            /\ pc' = "classify"

\* speech_to_text: the temporary file is created (delete=False) and the
\* payload written.  The write is outside the try block, so an exception
\* of f.write (a TypeError for a str payload, an OSError of the file
\* system) leaves speech_to_text and chat() with the file still there.
SttWrite(outcome) ==
    /\ pc = "stt_write"
    /\ stages' = stages \cup {"transcribe"}
    /\ tempFile' = "exists"
    /\ IF outcome = "ok"
       THEN /\ pc' = "stt_read"
            /\ UNCHANGED <<raised, sttLeft, sttFailure>>
       ELSE /\ pc' = "done"
            /\ raised' = TRUE
            /\ sttLeft' = TRUE
            /\ sttFailure' = "write"
    /\ UNCHANGED <<req, user_query, target_lang, prompt_or_response, ai_resp,
                   response, genOutcome, ttsOutcome, sttCalls, genCalls,
                   ttsCalls>>

\* speech_to_text: sr.AudioFile(path) / rec.record(src) inside the try;
\* the bare except unlinks the file and returns None.
SttRead(outcome) ==
    /\ pc = "stt_read"
    /\ IF outcome = "ok"
       THEN /\ pc' = "stt_recognize"
            /\ UNCHANGED <<user_query, response, tempFile, sttLeft,
                           sttFailure>>
       ELSE /\ tempFile' = "deleted"
            /\ sttLeft' = TRUE
            /\ sttFailure' = "read"
            /\ AfterTranscription(PyNone)
    /\ UNCHANGED <<req, target_lang, prompt_or_response, ai_resp, raised,
                   genOutcome, ttsOutcome, sttCalls, genCalls, ttsCalls,
                   stages>>

\* speech_to_text: rec.recognize_google, then os.unlink on both paths.
SttRecognize(outcome, transcript) ==
    /\ pc = "stt_recognize"
    /\ sttCalls' = sttCalls + 1
    /\ tempFile' = "deleted"
    /\ sttLeft' = TRUE
    /\ IF outcome = "ok"
       THEN /\ sttFailure' = sttFailure
            /\ AfterTranscription(transcript)
       ELSE /\ sttFailure' = "recognize"
            /\ AfterTranscription(PyNone)
    /\ UNCHANGED <<req, target_lang, prompt_or_response, ai_resp, raised,
                   genOutcome, ttsOutcome, genCalls, ttsCalls, stages>>

\* The end of both branches of chat(): synthesis when wants_audio,
\* otherwise the return with tts_audio = None.
ThenSpeakOrReturn(text) ==
    IF req.wants_audio
    THEN /\ pc' = "synthesize"
         /\ response' = response
    ELSE /\ pc' = "done"
         /\ response' = [present |-> TRUE, text |-> text,
                         language |-> target_lang,
                         has_tts_audio |-> TRUE, tts_audio |-> NoAudio]

\* chat(): the small-talk branch.
SmallTalk ==
    /\ pc = "classify"
    /\ is_small_talk(user_query)
    /\ stages' = stages \cup {"small_talk"}
    /\ ai_resp' = get_small_talk_response(target_lang)
    /\ ThenSpeakOrReturn(get_small_talk_response(target_lang))
    /\ UNCHANGED <<req, user_query, target_lang, prompt_or_response, raised,
                   tempFile, sttLeft, sttFailure, genOutcome, ttsOutcome,
                   sttCalls, genCalls, ttsCalls>>

\* chat(): history text, build_prompt, and the "Help:" test that takes
\* the value of build_prompt as the answer.
Compose ==
    /\ pc = "classify"
    /\ ~is_small_talk(user_query)
    /\ stages' = stages \cup {"small_talk", "compose"}
    /\ LET p == build_prompt(user_query, history_text(req.chat_history),
                             target_lang)
       IN  /\ prompt_or_response' = p
           /\ IF IsHelpQuery(user_query)
              THEN /\ ai_resp' = p
                   /\ ThenSpeakOrReturn(p)
              ELSE /\ ai_resp' = ai_resp
                   /\ response' = response
                   /\ pc' = "generate"
    /\ UNCHANGED <<req, user_query, target_lang, raised, tempFile, sttLeft,
                   sttFailure, genOutcome, ttsOutcome, sttCalls, genCalls,
                   ttsCalls>>

\* chat(): model.generate_content(prompt).text inside try / except
\* Exception, with the localized fallback.
Generate(outcome) ==
    /\ pc = "generate"
    /\ stages' = stages \cup {"generate"}
    /\ genCalls' = genCalls + 1
    /\ genOutcome' = outcome
    /\ LET text == IF outcome = "ok" THEN GeneratedText
                   ELSE fallback_get(target_lang)
       IN  /\ ai_resp' = text
           /\ ThenSpeakOrReturn(text)
    /\ UNCHANGED <<req, user_query, target_lang, prompt_or_response, raised,
                   tempFile, sttLeft, sttFailure, ttsOutcome, sttCalls,
                   ttsCalls>>

\* chat(): text_to_speech(resp, target_lang) and the return.
Synthesize(outcome) ==
    /\ pc = "synthesize"
    /\ stages' = stages \cup {"synthesize"}
    /\ ttsCalls' = ttsCalls + 1
    /\ ttsOutcome' = outcome
    /\ pc' = "done"
    /\ LET r == text_to_speech(ai_resp, target_lang, outcome)
       IN  IF r.raised
           THEN /\ raised' = TRUE
                /\ response' = response
           ELSE /\ raised' = raised
                /\ response' = [present |-> TRUE, text |-> ai_resp,
                                language |-> target_lang,
                                has_tts_audio |-> TRUE,
                                tts_audio |-> r.audio]
    /\ UNCHANGED <<req, user_query, target_lang, prompt_or_response, ai_resp,
                   tempFile, sttLeft, sttFailure, genOutcome, sttCalls,
                   genCalls>>

Next ==
    \/ \E m \in Messages, l \in LanguageInputs, h \in Histories,
          wa \in BOOLEAN :
          Receive(m, l, h, wa, FALSE)
    \/ \E l \in LanguageInputs, h \in Histories, wa \in BOOLEAN :
          Receive(AudioPayload, l, h, wa, TRUE)
    \/ \E o \in WriteOutcomes : SttWrite(o)
    \/ \E o \in ReadOutcomes : SttRead(o)
    \/ \E o \in RecognizeOutcomes, t \in Transcripts : SttRecognize(o, t)
    \/ SmallTalk
    \/ Compose
    \/ \E o \in GenOutcomes : Generate(o)
    \/ \E o \in TtsOutcomes : Synthesize(o)

Spec ==
    Init /\ [][Next]_vars

\* chat() is a coroutine the server runs to its end: no step waits on
\* anything but the blocking call it makes.
FairSpec ==
    Init /\ [][Next]_vars /\ WF_vars(Next)

TypeOK ==
    /\ pc \in {"idle", "stt_write", "stt_read", "stt_recognize", "classify",
               "generate", "synthesize", "done"}
    /\ raised \in BOOLEAN
    /\ tempFile \in {"none", "exists", "deleted"}
    /\ sttCalls \in 0..1 /\ genCalls \in 0..1 /\ ttsCalls \in 0..1

(***************************************************************************)
(* Vocabulary of the properties.                                           *)
(***************************************************************************)
\* The entry a per-language table yields for a code: the code's own entry,
\* the English one for a code outside the four supported ones.
EntryLanguage(code) ==
    IF code \in {en, hi, ta, gu} THEN code ELSE en

\* s occurs somewhere in text
Contains(text, s) ==
    \E i \in 1..(Len(text) - Len(s) + 1) : SubSeq(text, i, i + Len(s) - 1) = s

BareGreetings ==
    {<<"h", "e", "l", "l", "o">>, <<"h", "i">>, <<"h", "e", "y">>,
     <<"n", "a", "m", "a", "s", "t", "e">>,
     <<"v", "a", "n", "a", "k", "k", "a", "m">>,
     <<"k", "e", "m", " ", "c", "h", "o">>}

ThanksFarewell ==
    {m_thank_you, m_bye}

IsBareGreeting(text) ==
    strip(lower(text)) \in BareGreetings

IsThanksFarewell(text) ==
    strip(lower(text)) \in ThanksFarewell

HasHelpIntent(text) ==
    \/ Contains(lower(text), <<"p", "r", "o", "b", "l", "e", "m">>)
    \/ startswith(text, HelpPrefix)

Returned ==
    pc = "done" /\ raised = FALSE /\ response.present

GenerationFailed ==
    genOutcome \in {"raise", "bad_text"}

\* The text chat() settles on before synthesis, from the request and the
\* generation outcome alone.
SettledText ==
    IF IsBareGreeting(user_query)
    THEN Txt("small_talk", EntryLanguage(target_lang), FALSE)
    ELSE IF startswith(user_query, HelpPrefix)
         THEN prompt_or_response
         ELSE IF genOutcome = "ok" THEN GeneratedText
              ELSE Txt("fallback", EntryLanguage(target_lang), FALSE)

(***************************************************************************)
(* Properties.                                                             *)
(***************************************************************************)
\* C1: when the generation call fails (it raises, or its text cannot be
\* read), chat() still returns normally, the text is the static fallback
\* message of the target language (the English one for a language without
\* an entry), and tts_audio is None with no synthesis call when wants_audio
\* is false.
C1_FallbackOnGenerationFailure ==
    (pc = "done" /\ GenerationFailed) =>
        /\ Returned
        /\ response.text = Txt("fallback", EntryLanguage(target_lang), FALSE)
        /\ (~req.wants_audio =>
                /\ response.tts_audio = NoAudio
                /\ ttsCalls = 0)

C1_Witness ==
    /\ Returned
    /\ genOutcome = "bad_text"
    /\ target_lang = fr
    /\ ~req.wants_audio
    /\ response.text = Txt("fallback", en, FALSE)
    /\ response.tts_audio = NoAudio

C3_HelpIntentGetsCannedAnswer ==
    (Returned /\ HasHelpIntent(user_query)) =>
        /\ response.text \in
               {HELP_RESPONSES(EntryLanguage(target_lang))[k] : k \in HelpKeys}
               \cup {MASTER_RESPONSE(EntryLanguage(target_lang))}
        /\ genCalls = 0

C6_ResponseLanguageSupported ==
    (pc = "done" /\ response.present) =>
        response.language \in DOMAIN SUPPORTED_LANGUAGES

\* C7 (as claimed): when transcription of a voice request fails at any
\* step (write, read, recognition), chat() returns the localized "could not
\* understand" message and no later stage runs.
C7_TranscriptionFailureIsAnswered ==
    (pc = "done" /\ req.is_voice /\ sttFailure # "none") =>
        /\ Returned
        /\ response.text =
               Txt("voice_not_understood", EntryLanguage(target_lang), FALSE)
        /\ stages \cap {"small_talk", "compose", "generate", "synthesize"} = {}
        /\ genCalls = 0
        /\ ttsCalls = 0

\* C8: when the synthesis call fails, chat() still returns normally with
\* tts_audio = None, and text and language are what they are when synthesis
\* succeeds: the text settled before synthesis and the target language.
C8_SynthesisFailureKeepsText ==
    (pc = "done" /\ ttsCalls = 1) =>
        /\ Returned
        /\ response.text = SettledText
        /\ response.language = target_lang
        /\ response.has_tts_audio
        /\ (ttsOutcome = "raise" => response.tts_audio = NoAudio)
        /\ (ttsOutcome = "ok" => response.tts_audio.some)

C8_Witness ==
    /\ Returned
    /\ ttsOutcome = "raise"
    /\ genOutcome = "raise"
    /\ response.text = Txt("fallback", ta, FALSE)
    /\ response.language = ta
    /\ response.tts_audio = NoAudio

\* C9 (as claimed): once speech_to_text has been left, on any exit path,
\* its temporary file no longer exists.
C9_TempFileRemoved ==
    sttLeft => tempFile = "deleted"

\* C10 (as claimed): every request eventually reaches a terminal response,
\* and each collaborator is called at most once on the way.
C10_TerminatesWithResponse ==
    /\ <>Returned
    /\ [](sttCalls <= 1 /\ genCalls <= 1 /\ ttsCalls <= 1)

====
